---- MODULE Spec2Model ----
(***************************************************************************)
(* Model of models/utils/continual_model.py: the ContinualModel adapter.   *)
(* State: the process-wide configuration (args, whether wandb is loaded),  *)
(* the adapters that were constructed, the checkpoint file, the number of  *)
(* wandb.log calls, and the outcome of the last operation.                 *)
(***************************************************************************)
EXTENDS Integers, Sequences, FiniteSets, TLC

VARIABLES args, wandbLoaded, adapters, storage, savedSnapshot,
          wandbLogCalls, directLogs, metaOk, last

vars == <<args, wandbLoaded, adapters, storage, savedSnapshot,
          wandbLogCalls, directLogs, metaOk, last>>

-----------------------------------------------------------------------------
(* Bounds of the model.                                                    *)

\* wandb.log calls, and training steps through meta_observe, in one run
MaxCalls == 2
\* parameter values live in 0 .. ValMod-1 (an optimizer step adds 1 modulo it)
ValMod == 2

Slots == {1, 2}
Batches == {0, 1}
OptNames == {"sgd", "adam", "rmsprop"}
\* learning rates, in units of 1e-3
LRs == {1, 10}

\* architectures: the ordered parameter names of a backbone
Archs == {<<"w">>, <<"w", "b">>}

-----------------------------------------------------------------------------
(* Python values that reach the logging hook.                              *)

Tensor(d, v) == [kind |-> "tensor", dim |-> d, val |-> v]
Scalar(v) == [kind |-> "float", dim |-> 0, val |-> v]
Obj == [kind |-> "object", dim |-> 0, val |-> 0]
NoValue == [kind |-> "none", dim |-> 0, val |-> 0]

\* torch.Tensor.item() on a zero-dimensional tensor
Item(v) == Scalar(v.val)

\* variable names are sequences of characters
n_self == <<"s", "e", "l", "f">>
n_cur_data == <<"c", "u", "r", "_", "d", "a", "t", "a">>
n_next_data == <<"n", "e", "x", "t", "_", "d", "a", "t", "a">>
n_outputs == <<"o", "u", "t", "p", "u", "t", "s">>
n_loss == <<"l", "o", "s", "s">>
n_loss_vec == <<"l", "o", "s", "s", "_", "v", "e", "c">>
n_my_loss == <<"m", "y", "_", "l", "o", "s", "s">>
n_los == <<"l", "o", "s">>
n_wandb_acc == <<"_", "w", "a", "n", "d", "b", "_", "a", "c", "c">>
n_wandb == <<"_", "w", "a", "n", "d", "b">>
p_wandb == <<"_", "w", "a", "n", "d", "b", "_">>
p_loss == <<"l", "o", "s", "s">>

\* str.startswith
StartsWith(k, p) == Len(k) >= Len(p) /\ SubSeq(k, 1, Len(p)) = p

EmptyDict == [k \in {} |-> NoValue]

-----------------------------------------------------------------------------
(* The optimizer registry and the strategy classes.                        *)

optimizer_dict == [sgd |-> "SGD", adam |-> "Adam"]

NoOpt == [kind |-> "none", params |-> 0, lr |-> 0, state |-> "empty"]

\* torch.optim.<kind>(params, lr=lr): a fresh optimizer bound to the
\* parameters of the network `net`
NewOptimizer(kind, net, lr) ==
    [kind |-> kind, params |-> net.id, lr |-> lr, state |-> "empty"]

\* the NAME attribute of a strategy class: absent (the base class only
\* annotates it), None, or a string
NameUndefined == [tag |-> "undefined", s |-> <<>>]
NameNone == [tag |-> "none", s |-> <<>>]
NameStr(s) == [tag |-> "str", s |-> s]
Names == {NameUndefined, NameNone, NameStr(<<>>), NameStr(<<"e", "r">>)}

\* Python truthiness of NAME, for a NAME that resolves
Truthy(name) == name.tag = "str" /\ Len(name.s) > 0

Overrides == {"base", "lossLocal", "noLossLocal", "tensorRet", "raising"}

\* a strategy class: its NAME and which observe it resolves to
Classes == [NAME : Names, observe : Overrides]

-----------------------------------------------------------------------------
(* ContinualModel.__init__                                                 *)

\* variants of __init__ with a slip: an unknown optimizer name falls back to
\* SGD; the name is checked before the optimizer is built
ContinualModelInit_FallbackSGD(cls, backbone, a) ==
    LET kind == IF a.opt \in DOMAIN optimizer_dict THEN optimizer_dict[a.opt] ELSE "SGD"
        s1 == [cls |-> cls, net |-> backbone, opt |-> NewOptimizer(kind, backbone, a.lr),
               device |-> "set"]
    IN  IF cls.NAME = NameUndefined
        THEN [err |-> "AttributeError", self |-> s1]
        ELSE IF ~Truthy(cls.NAME)
             THEN [err |-> "NotImplementedError", self |-> s1]
             ELSE [err |-> "ok", self |-> s1]

ContinualModelInit_NameFirst(cls, backbone, a) ==
    LET s0 == [cls |-> cls, net |-> backbone, opt |-> NoOpt, device |-> "unset"]
    IN  IF cls.NAME = NameUndefined
        THEN [err |-> "AttributeError", self |-> s0]
        ELSE IF ~Truthy(cls.NAME)
             THEN [err |-> "NotImplementedError", self |-> s0]
             ELSE IF a.opt \notin DOMAIN optimizer_dict
                  THEN [err |-> "KeyError", self |-> s0]
                  ELSE [err |-> "ok",
                        self |-> [s0 EXCEPT !.opt = NewOptimizer(optimizer_dict[a.opt], backbone, a.lr),
                                            !.device = "set"]]

\* The statements of __init__ in order.  The result is the exception that
\* leaves the constructor ("ok" when none does) and the object as it stands
\* at that moment.
ContinualModelInit(cls, backbone, a) ==
    LET s0 == [cls |-> cls, net |-> backbone, opt |-> NoOpt, device |-> "unset"]
    IN  IF a.opt \notin DOMAIN optimizer_dict
        THEN [err |-> "KeyError", self |-> s0]
        ELSE LET s1 == [s0 EXCEPT !.opt = NewOptimizer(optimizer_dict[a.opt], backbone, a.lr),
                                  !.device = "set"]
             IN  IF cls.NAME = NameUndefined
                 THEN [err |-> "AttributeError", self |-> s1]
                 ELSE IF ~Truthy(cls.NAME)
                      THEN [err |-> "NotImplementedError", self |-> s1]
                      ELSE [err |-> "ok", self |-> s1]

-----------------------------------------------------------------------------
(* observe: the base method and the overrides of concrete strategies.      *)

Dict(pairs) == [k \in {p[1] : p \in pairs} |-> (CHOOSE p \in pairs : p[1] = k)[2]]

\* variant of the base observe with a slip: a stub that returns a loss of 0
observe_Stub(self, cur_data, next_data) ==
    [err |-> "ok", ret |-> Scalar(0), locals |-> EmptyDict,
     net |-> self.net, opt |-> self.opt]

\* ContinualModel.observe: raises, touches nothing
observe(self, cur_data, next_data) ==
    [err |-> "NotImplementedError", ret |-> NoValue, locals |-> EmptyDict,
     net |-> self.net, opt |-> self.opt]

\* the loss a concrete strategy computes for a pair of batches
LossOf(cur_data, next_data) == cur_data + 2 * next_data

\* the local variables of a concrete override's frame when it returns
OverrideLocals(ov, cur_data, next_data) ==
    LET L == LossOf(cur_data, next_data)
        common == {<<n_self, Obj>>, <<n_cur_data, Tensor(1, cur_data)>>,
                   <<n_next_data, Tensor(1, next_data)>>}
    IN  CASE ov = "lossLocal" ->
               Dict(common \cup {<<n_outputs, Tensor(1, cur_data)>>,
                                 <<n_loss, Tensor(0, L)>>,
                                 <<n_loss_vec, Tensor(1, L)>>,
                                 <<n_my_loss, Scalar(L)>>,
                                 <<n_wandb_acc, Scalar(next_data)>>})
          [] ov = "noLossLocal" ->
               Dict(common \cup {<<n_los, Tensor(0, L)>>, <<n_wandb, Scalar(1)>>})
          [] ov = "tensorRet" ->
               Dict(common \cup {<<n_loss, Tensor(0, L)>>})
          [] OTHER ->
               Dict(common \cup {<<n_loss, Tensor(0, L)>>})

\* one optimizer step on the network's parameters
StepNet(net) == [net EXCEPT !.params = [k \in DOMAIN net.params |-> (net.params[k] + 1) % ValMod]]

\* an override of a concrete strategy: one optimization step, returns the
\* loss ("raising" fails on some batches before it steps)
ConcreteObserve(self, cur_data, next_data) ==
    LET ov == self.cls.observe
        L == LossOf(cur_data, next_data)
        locs == OverrideLocals(ov, cur_data, next_data)
    IN  IF ov = "raising" /\ cur_data = 1
        THEN [err |-> "RuntimeError", ret |-> NoValue, locals |-> locs,
              net |-> self.net, opt |-> self.opt]
        ELSE [err |-> "ok",
              ret |-> IF ov = "tensorRet" THEN Tensor(0, L) ELSE Scalar(L),
              locals |-> locs,
              net |-> StepNet(self.net),
              opt |-> [self.opt EXCEPT !.state = "stepped"]]

\* self.observe(...): method resolution; events records the invocation and
\* how it ended
CallObserve(self, cur_data, next_data) ==
    LET r == IF self.cls.observe = "base"
             THEN observe(self, cur_data, next_data)
             ELSE ConcreteObserve(self, cur_data, next_data)
    IN  [err |-> r.err, ret |-> r.ret, locals |-> r.locals, net |-> r.net, opt |-> r.opt,
         events |-> <<"observe", IF r.err = "ok" THEN "observe returned" ELSE "observe raised">>]

-----------------------------------------------------------------------------
(* autolog_wandb and meta_observe                                          *)

\* utils.magic.persistent_locals(func)(...): calls func once, keeps the
\* frame's locals, returns func's result; an exception of func propagates
PersistentLocalsCall(self, cur_data, next_data) ==
    CallObserve(self, cur_data, next_data)

\* variants of the comprehension with a slip: no .item() conversion; the
\* filter tests "_wandb" and "loss" anywhere at the front without the
\* trailing underscore
LoggedDict_NoItem(locals) ==
    [k \in {n \in DOMAIN locals : StartsWith(n, p_wandb) \/ StartsWith(n, p_loss)} |-> locals[k]]

LoggedDict_ShortPrefix(locals) ==
    [k \in {n \in DOMAIN locals : StartsWith(n, n_wandb) \/ StartsWith(n, n_los)} |->
        IF locals[k].kind = "tensor" /\ locals[k].dim = 0 THEN Item(locals[k]) ELSE locals[k]]

\* the dict comprehension handed to wandb.log
LoggedDict(locals) ==
    [k \in {n \in DOMAIN locals : StartsWith(n, p_wandb) \/ StartsWith(n, p_loss)} |->
        IF locals[k].kind = "tensor" /\ locals[k].dim = 0 THEN Item(locals[k]) ELSE locals[k]]

\* variant of autolog_wandb with a slip: debug_mode is not consulted
autolog_wandb_IgnoresDebug(a, loaded, locals) ==
    IF ~a.nowand
    THEN IF loaded
         THEN [err |-> "ok", logged |-> <<LoggedDict(locals)>>]
         ELSE [err |-> "NameError", logged |-> <<>>]
    ELSE [err |-> "ok", logged |-> <<>>]

\* ContinualModel.autolog_wandb: the mappings it hands to wandb.log, and the
\* exception it leaves with.  The global name wandb is bound only when the
\* import at module load succeeded.
autolog_wandb(a, loaded, locals) ==
    IF ~a.nowand /\ ~a.debug_mode
    THEN IF loaded
         THEN [err |-> "ok", logged |-> <<LoggedDict(locals)>>]
         ELSE [err |-> "NameError", logged |-> <<>>]
    ELSE [err |-> "ok", logged |-> <<>>]


\* variants of meta_observe with a slip: the logging branch does not return
\* the step's value; the logging branch logs in a finally clause, also when
\* the step raised
meta_observe_DropsRet(self, a, loaded, cur_data, next_data) ==
    LET r == CallObserve(self, cur_data, next_data)
        g == autolog_wandb(a, loaded, r.locals)
    IN  IF loaded /\ ~a.nowand /\ r.err = "ok"
        THEN [err |-> g.err, ret |-> NoValue, net |-> r.net, opt |-> r.opt,
              logged |-> g.logged,
              events |-> r.events \o [i \in 1 .. Len(g.logged) |-> "wandb.log"]
                         \o <<IF g.err = "ok" THEN "return" ELSE "raise">>]
        ELSE [err |-> r.err, ret |-> r.ret, net |-> r.net, opt |-> r.opt,
              logged |-> <<>>,
              events |-> r.events \o <<IF r.err = "ok" THEN "return" ELSE "raise">>]

meta_observe_LogsInFinally(self, a, loaded, cur_data, next_data) ==
    LET r == CallObserve(self, cur_data, next_data)
        g == autolog_wandb(a, loaded, r.locals)
    IN  IF loaded /\ ~a.nowand
        THEN [err |-> IF r.err # "ok" THEN r.err ELSE g.err,
              ret |-> IF r.err = "ok" /\ g.err = "ok" THEN r.ret ELSE NoValue,
              net |-> r.net, opt |-> r.opt,
              logged |-> g.logged,
              events |-> r.events \o [i \in 1 .. Len(g.logged) |-> "wandb.log"]
                         \o <<IF r.err = "ok" /\ g.err = "ok" THEN "return" ELSE "raise">>]
        ELSE [err |-> r.err, ret |-> r.ret, net |-> r.net, opt |-> r.opt,
              logged |-> <<>>,
              events |-> r.events \o <<IF r.err = "ok" THEN "return" ELSE "raise">>]

\* ContinualModel.meta_observe.  events is the order of what happened during
\* the call.
meta_observe(self, a, loaded, cur_data, next_data) ==
    IF loaded /\ ~a.nowand
    THEN LET r == PersistentLocalsCall(self, cur_data, next_data)
         IN  IF r.err # "ok"
             THEN [err |-> r.err, ret |-> NoValue, net |-> r.net, opt |-> r.opt,
                   logged |-> <<>>, events |-> r.events \o <<"raise">>]
             ELSE LET g == autolog_wandb(a, loaded, r.locals)
                  IN  [err |-> g.err,
                       ret |-> IF g.err = "ok" THEN r.ret ELSE NoValue,
                       net |-> r.net, opt |-> r.opt,
                       logged |-> g.logged,
                       events |-> r.events
                                  \o [i \in 1 .. Len(g.logged) |-> "wandb.log"]
                                  \o <<IF g.err = "ok" THEN "return" ELSE "raise">>]
    ELSE LET r == CallObserve(self, cur_data, next_data)
         IN  [err |-> r.err, ret |-> r.ret, net |-> r.net, opt |-> r.opt,
              logged |-> <<>>,
              events |-> r.events \o <<IF r.err = "ok" THEN "return" ELSE "raise">>]

-----------------------------------------------------------------------------
(* save and load                                                           *)

NoFile == <<"no file">>

\* net.state_dict(): the parameters as an ordered list of (name, tensor)
state_dict(net) == [i \in 1 .. Len(net.arch) |-> <<net.arch[i], net.params[net.arch[i]]>>]

\* torch.save(obj, path) / torch.load(path): the blob written and read back
Serialize(sd) == <<"pickle">> \o sd
Deserialize(blob) == Tail(blob)

Keys(sd) == {sd[i][1] : i \in 1 .. Len(sd)}
ValueOf(sd, k) == sd[CHOOSE i \in 1 .. Len(sd) : sd[i][1] = k][2]

\* net.load_state_dict(sd) with strict=True: copies every entry whose key the
\* network has, then raises if keys were missing or unexpected
load_state_dict(net, sd) ==
    LET mine == DOMAIN net.params
        net2 == [net EXCEPT !.params =
                    [k \in mine |-> IF k \in Keys(sd) THEN ValueOf(sd, k) ELSE net.params[k]]]
    IN  [err |-> IF Keys(sd) = mine THEN "ok" ELSE "RuntimeError", net |-> net2]

\* ContinualModel.save: the file's new content
save(self) == Serialize(state_dict(self.net))

\* variant of load with a slip: the file is read but never applied to the
\* network
load_NotApplied(self, file) ==
    IF file = NoFile
    THEN [err |-> "FileNotFoundError", net |-> self.net]
    ELSE [err |-> "ok", net |-> self.net]

\* ContinualModel.load
load(self, file) ==
    IF file = NoFile
    THEN [err |-> "FileNotFoundError", net |-> self.net]
    ELSE load_state_dict(self.net, Deserialize(file))

-----------------------------------------------------------------------------
(* The state machine.                                                      *)

Built(s) == adapters[s] # <<>>
Self(s) == adapters[s][1]

Idle == [op |-> "none", slot |-> 0, err |-> "ok", ret |-> NoValue,
         logged |-> <<>>, events |-> <<>>, obj |-> <<>>,
         cur |-> 0, next |-> 0, locals |-> EmptyDict]

Range(seq) == {seq[i] : i \in 1 .. Len(seq)}

\* a freshly built backbone: object s, every parameter initialised to p0
Backbone(s, arch, p0) == [id |-> s, arch |-> arch, params |-> [k \in Range(arch) |-> p0]]

\* local-variable dicts handed to a direct autolog_wandb call
SampleLocals == {EmptyDict} \cup
    {OverrideLocals(ov, 1, n) : ov \in {"lossLocal", "noLossLocal"}, n \in Batches}

AllArgs == [opt : OptNames, lr : LRs, nowand : BOOLEAN, debug_mode : BOOLEAN]

InitWith(argSet, loadedSet) ==
    /\ args \in argSet
    /\ wandbLoaded \in loadedSet
    /\ adapters = [s \in Slots |-> <<>>]
    /\ storage = NoFile
    /\ savedSnapshot = <<>>
    /\ wandbLogCalls = 0
    /\ directLogs = 0
    /\ metaOk = 0
    /\ last = Idle

\* model = Strategy(backbone, loss, args, transform)
Construct(s, cls, arch, p0) ==
    /\ ~Built(s)
    /\ LET r == ContinualModelInit(cls, Backbone(s, arch, p0), args)
       IN  /\ adapters' = [adapters EXCEPT ![s] = IF r.err = "ok" THEN <<r.self>> ELSE <<>>]
           /\ last' = [Idle EXCEPT !.op = "init", !.slot = s, !.err = r.err, !.obj = <<r.self>>]
    /\ UNCHANGED <<args, wandbLoaded, storage, savedSnapshot, wandbLogCalls, directLogs, metaOk>>

\* model.observe(cur_data, next_data)
Observe(s, c, n) ==
    /\ Built(s)
    /\ LET r == CallObserve(Self(s), c, n)
       IN  /\ adapters' = [adapters EXCEPT ![s] = <<[Self(s) EXCEPT !.net = r.net, !.opt = r.opt]>>]
           /\ last' = [Idle EXCEPT !.op = "observe", !.slot = s, !.err = r.err, !.ret = r.ret,
                                   !.cur = c, !.next = n]
    /\ UNCHANGED <<args, wandbLoaded, storage, savedSnapshot, wandbLogCalls, directLogs, metaOk>>

\* model.meta_observe(cur_data, next_data)
MetaObserve(s, c, n) ==
    /\ Built(s)
    /\ metaOk < MaxCalls
    /\ wandbLogCalls < MaxCalls
    /\ LET r == meta_observe(Self(s), args, wandbLoaded, c, n)
       IN  /\ adapters' = [adapters EXCEPT ![s] = <<[Self(s) EXCEPT !.net = r.net, !.opt = r.opt]>>]
           /\ wandbLogCalls' = wandbLogCalls + Len(r.logged)
           /\ metaOk' = metaOk + (IF r.events[2] = "observe returned" THEN 1 ELSE 0)
           /\ last' = [Idle EXCEPT !.op = "meta_observe", !.slot = s, !.err = r.err, !.ret = r.ret,
                                   !.logged = r.logged, !.events = r.events,
                                   !.cur = c, !.next = n]
    /\ UNCHANGED <<args, wandbLoaded, storage, savedSnapshot, directLogs>>

\* model.autolog_wandb(locals)
AutologWandb(s, locals) ==
    /\ Built(s)
    /\ wandbLogCalls < MaxCalls
    /\ LET r == autolog_wandb(args, wandbLoaded, locals)
       IN  /\ wandbLogCalls' = wandbLogCalls + Len(r.logged)
           /\ directLogs' = directLogs + Len(r.logged)
           /\ last' = [Idle EXCEPT !.op = "autolog_wandb", !.slot = s, !.err = r.err,
                                   !.logged = r.logged, !.locals = locals]
    /\ UNCHANGED <<args, wandbLoaded, adapters, storage, savedSnapshot, metaOk>>

\* model.save(path)
Save(s) ==
    /\ Built(s)
    /\ storage' = save(Self(s))
    /\ savedSnapshot' = <<Self(s).net>>
    /\ last' = [Idle EXCEPT !.op = "save", !.slot = s]
    /\ UNCHANGED <<args, wandbLoaded, adapters, wandbLogCalls, directLogs, metaOk>>

\* model.load(path)
Load(s) ==
    /\ Built(s)
    /\ LET r == load(Self(s), storage)
       IN  /\ adapters' = [adapters EXCEPT ![s] = <<[Self(s) EXCEPT !.net = r.net]>>]
           /\ last' = [Idle EXCEPT !.op = "load", !.slot = s, !.err = r.err]
    /\ UNCHANGED <<args, wandbLoaded, storage, savedSnapshot, wandbLogCalls, directLogs, metaOk>>

-----------------------------------------------------------------------------
(* Training and logging: one adapter of any concrete strategy, under every *)
(* combination of the logging flags.                                       *)

TrainArgs == {a \in AllArgs : a.opt \in DOMAIN optimizer_dict}
TrainClasses == {cls \in Classes : Truthy(cls.NAME)}

Init == InitWith(TrainArgs, BOOLEAN)

Next ==
    \/ \E cls \in TrainClasses : Construct(1, cls, <<"w">>, 0)
    \/ \E c \in Batches, n \in Batches : Observe(1, c, n)
    \/ \E c \in Batches, n \in Batches : MetaObserve(1, c, n)
    \/ \E locals \in SampleLocals : AutologWandb(1, locals)

Spec == Init /\ [][Next]_vars

(* Construction: every configuration and every strategy class.             *)

InitCtor == InitWith(AllArgs, BOOLEAN)

NextCtor ==
    \E cls \in Classes, arch \in Archs, p0 \in 0 .. ValMod - 1 : Construct(1, cls, arch, p0)

SpecCtor == InitCtor /\ [][NextCtor]_vars

(* Persistence: two adapters, one checkpoint file.                         *)

PersistArgs == {a \in AllArgs : a.opt = "adam" /\ a.lr = 10 /\ a.nowand /\ ~a.debug_mode}
PersistClass == [NAME |-> NameStr(<<"e", "r">>), observe |-> "lossLocal"]

InitPersist == InitWith(PersistArgs, {FALSE})

NextPersist ==
    \/ \E s \in Slots, arch \in Archs, p0 \in 0 .. ValMod - 1 : Construct(s, PersistClass, arch, p0)
    \/ \E s \in Slots : Observe(s, 0, 1)
    \/ \E s \in Slots : Save(s)
    \/ \E s \in Slots : Load(s)

SpecPersist == InitPersist /\ [][NextPersist]_vars

-----------------------------------------------------------------------------
(* Properties of construction, checked under SpecCtor.                     *)

\* the strategy class and the object of the last constructor call
CtorCls == last.obj[1].cls
CtorObj == last.obj[1]

\* C1: with a registered optimizer name ('sgd', 'adam') and a non-empty NAME,
\* construction succeeds and self.opt is the optimizer kind registered under
\* that name, bound to the backbone's parameters with the configured learning
\* rate; with an unregistered name construction fails and no adapter exists.
C1_OptimizerByName ==
    last.op = "init" =>
        /\ (args.opt \in {"sgd", "adam"} /\ Truthy(CtorCls.NAME)) =>
              /\ last.err = "ok"
              /\ Built(last.slot)
              /\ Self(last.slot).opt.kind = (IF args.opt = "sgd" THEN "SGD" ELSE "Adam")
              /\ Self(last.slot).opt.params = Self(last.slot).net.id
              /\ Self(last.slot).opt.lr = args.lr
        /\ args.opt \notin {"sgd", "adam"} =>
              /\ last.err # "ok"
              /\ ~Built(last.slot)

C1_Witness ==
    /\ last.op = "init"
    /\ last.err = "ok"
    /\ args.opt = "adam"
    /\ args.lr = 10
    /\ Built(1)
    /\ Self(1).opt.kind = "Adam"

\* C6: constructing a strategy whose NAME is not defined, or is empty, always
\* aborts with the missing-name error (the NotImplementedError of __init__),
\* and never completes.
C6_MissingNameError ==
    (last.op = "init" /\ ~Truthy(CtorCls.NAME)) =>
        /\ last.err = "NotImplementedError"
        /\ ~Built(last.slot)

\* C10: an unregistered optimizer name fails construction with the lookup
\* error whether or not the name is valid, and the missing-name error is
\* raised only after the optimizer was built and bound to the network's
\* parameters.
C10_OptimizerBeforeName ==
    last.op = "init" =>
        /\ args.opt \notin DOMAIN optimizer_dict => last.err = "KeyError"
        /\ last.err = "NotImplementedError" =>
              /\ args.opt \in DOMAIN optimizer_dict
              /\ CtorObj.opt.kind = optimizer_dict[args.opt]
              /\ CtorObj.opt.params = CtorObj.net.id

C10_Witness ==
    /\ last.op = "init"
    /\ last.err = "NotImplementedError"
    /\ CtorObj.opt.kind = "SGD"
    /\ CtorCls.NAME = NameStr(<<>>)

-----------------------------------------------------------------------------
(* Properties of the training step and of logging, checked under Spec.     *)

\* the adapter of the last call, and what its observe does on the call's
\* batches
LastSelf == Self(last.slot)
LastStep == CallObserve(LastSelf, last.cur, last.next)
Count(seq, e) == Cardinality({i \in DOMAIN seq : seq[i] = e})
Position(seq, e) == CHOOSE i \in DOMAIN seq : seq[i] = e
LoggingOn == wandbLoaded /\ ~args.nowand /\ ~args.debug_mode

\* C2: for every override, batches, and combination of (wandb loaded, nowand,
\* debug_mode), meta_observe returns exactly what observe returns for those
\* batches and invokes observe exactly once.
C2_SameReturn ==
    (last.op = "meta_observe" /\ LastSelf.cls.observe # "base") =>
        /\ Count(last.events, "observe") = 1
        /\ LastStep.err = "ok" =>
              /\ last.err = "ok"
              /\ last.ret = LastStep.ret
              /\ last.ret = (IF LastSelf.cls.observe = "tensorRet"
                             THEN Tensor(0, last.cur + 2 * last.next)
                             ELSE Scalar(last.cur + 2 * last.next))

C2_Witness ==
    /\ last.op = "meta_observe"
    /\ LoggingOn
    /\ LastSelf.cls.observe = "tensorRet"
    /\ last.ret = Tensor(0, 3)
    /\ Len(last.logged) = 1

\* the plain scalar of a zero-dimensional tensor, any other value as it is
Plain(v) == IF v.kind = "tensor" /\ v.dim = 0 THEN [kind |-> "float", dim |-> 0, val |-> v.val] ELSE v

C3_Case ==
    /\ last.op = "meta_observe"
    /\ LastSelf.cls.observe # "base"
    /\ LoggingOn
    /\ last.err = "ok"

\* C3 as stated: with logging on, a meta_observe call whose override returns
\* loss L emits a mapping with a key that starts with "loss" and maps to L (or
\* to the plain scalar of L).
C3_LossKeyAlways ==
    C3_Case =>
        /\ Len(last.logged) = 1
        /\ \E k \in DOMAIN last.logged[1] :
              /\ Len(k) >= 4
              /\ SubSeq(k, 1, 4) = <<"l", "o", "s", "s">>
              /\ last.logged[1][k] = Plain(last.ret)

\* C3 amended: with logging on, a meta_observe call emits one mapping, and
\* every local variable of the override whose name starts with "loss" and
\* that holds the returned loss L is a key of it, mapped to L (to its plain
\* scalar when it is a zero-dimensional tensor).
C3_LossLocalLogged ==
    C3_Case =>
        /\ Len(last.logged) = 1
        /\ \A k \in DOMAIN LastStep.locals :
              (/\ Len(k) >= 4
               /\ SubSeq(k, 1, 4) = <<"l", "o", "s", "s">>
               /\ Plain(LastStep.locals[k]) = Plain(last.ret)) =>
                  /\ k \in DOMAIN last.logged[1]
                  /\ last.logged[1][k] = Plain(last.ret)

C3_Witness ==
    /\ C3_Case
    /\ LastSelf.cls.observe = "lossLocal"
    /\ last.ret = Scalar(2)
    /\ n_loss \in DOMAIN last.logged[1]
    /\ last.logged[1][n_loss] = Scalar(2)

\* C4: when nowand is set, or debug_mode is set, or wandb is not loaded, no
\* meta_observe or autolog_wandb call ever calls wandb.log.
C4_NoLogWhenOff ==
    (args.nowand \/ args.debug_mode \/ ~wandbLoaded) =>
        /\ wandbLogCalls = 0
        /\ last.logged = <<>>

C4_Witness ==
    /\ last.op = "meta_observe"
    /\ last.err = "ok"
    /\ wandbLoaded
    /\ ~args.nowand
    /\ args.debug_mode
    /\ metaOk = 2
    /\ wandbLogCalls = 0

\* C5: observe on an adapter without an override fails with "not
\* implemented" for every pair of batches, returns no value, and leaves the
\* network's parameters and the optimizer as they were.
C5_BaseObserveRaises ==
    /\ [](last.op = "observe" /\ LastSelf.cls.observe = "base" =>
             /\ last.err = "NotImplementedError"
             /\ last.ret = NoValue)
    /\ [][(last'.op = "observe" /\ adapters'[last'.slot][1].cls.observe = "base") =>
             adapters' = adapters]_vars

C5_Witness ==
    /\ last.op = "observe"
    /\ LastSelf.cls.observe = "base"
    /\ last.err = "NotImplementedError"
    /\ last.cur = 1
    /\ last.next = 1

\* the locals the last call handed to autolog_wandb
LastLocals == IF last.op = "autolog_wandb" THEN last.locals ELSE LastStep.locals
IsPrefix(p, k) == Len(p) <= Len(k) /\ \A i \in 1 .. Len(p) : k[i] = p[i]

\* C8: when autolog_wandb emits, the keys of the mapping are exactly the
\* captured names that start with "_wandb_" or "loss", and each value is the
\* captured one, except that a zero-dimensional tensor is replaced by its
\* plain scalar; tensors of dimension >= 1 and other values are unchanged.
C8_EmittedMapping ==
    /\ (last.op = "autolog_wandb" /\ LoggingOn) => Len(last.logged) = 1
    /\ \A i \in 1 .. Len(last.logged) :
          LET d == last.logged[i]
          IN  /\ DOMAIN d = {k \in DOMAIN LastLocals :
                                \/ IsPrefix(<<"_", "w", "a", "n", "d", "b", "_">>, k)
                                \/ IsPrefix(<<"l", "o", "s", "s">>, k)}
              /\ \A k \in DOMAIN d :
                    LET v == LastLocals[k]
                    IN  IF v.kind = "tensor" /\ v.dim = 0
                        THEN d[k] = [kind |-> "float", dim |-> 0, val |-> v.val]
                        ELSE d[k] = v

C8_Witness ==
    /\ last.op = "autolog_wandb"
    /\ Len(last.logged) = 1
    /\ DOMAIN last.locals = {n_self, n_cur_data, n_next_data, n_outputs, n_loss,
                             n_loss_vec, n_my_loss, n_wandb_acc}
    /\ DOMAIN last.logged[1] = {n_loss, n_loss_vec, n_wandb_acc}
    /\ last.logged[1][n_loss] = Scalar(3)
    /\ last.logged[1][n_loss_vec] = Tensor(1, 3)
    /\ last.logged[1][n_wandb_acc] = Scalar(1)

\* C9: with logging on, the wandb.log calls made by meta_observe number the
\* training steps that returned normally; a step that returns is followed by
\* exactly one log call, after the step and before meta_observe returns; a
\* step that raises propagates its error with no log call.
C9_OneLogPerStep ==
    LoggingOn =>
        /\ wandbLogCalls - directLogs = metaOk
        /\ last.op = "meta_observe" =>
              IF LastStep.err = "ok"
              THEN /\ last.err = "ok"
                   /\ Count(last.events, "wandb.log") = 1
                   /\ Len(last.logged) = 1
                   /\ Position(last.events, "observe returned")
                         < Position(last.events, "wandb.log")
                   /\ Position(last.events, "wandb.log")
                         < Position(last.events, "return")
              ELSE /\ last.err = LastStep.err
                   /\ Count(last.events, "wandb.log") = 0
                   /\ last.logged = <<>>
                   /\ last.events[Len(last.events)] = "raise"

C9_Witness ==
    /\ LoggingOn
    /\ last.op = "meta_observe"
    /\ last.err = "RuntimeError"
    /\ metaOk = 1
    /\ wandbLogCalls = 1
    /\ directLogs = 0

-----------------------------------------------------------------------------
(* Properties of save and load, checked under SpecPersist.                 *)

\* C7: after save on one adapter and load on an adapter whose network has
\* the same architecture, every parameter of the loading network equals the
\* saved network's parameter at the time of the save; load keeps self.net the
\* same object, and save leaves every network as it was.
C7_SaveLoadRoundTrip ==
    /\ [](last.op = "load" /\ savedSnapshot # <<>> =>
             (LastSelf.net.arch = savedSnapshot[1].arch =>
                 /\ last.err = "ok"
                 /\ \A i \in 1 .. Len(savedSnapshot[1].arch) :
                       LastSelf.net.params[savedSnapshot[1].arch[i]]
                          = savedSnapshot[1].params[savedSnapshot[1].arch[i]]))
    /\ [][/\ last'.op = "save" => adapters' = adapters
          /\ last'.op = "load" =>
                adapters'[last'.slot][1].net.id = adapters[last'.slot][1].net.id]_vars

C7_Witness ==
    /\ last.op = "load"
    /\ last.err = "ok"
    /\ last.slot = 2
    /\ savedSnapshot # <<>>
    /\ savedSnapshot[1].id = 1
    /\ savedSnapshot[1].arch = <<"w", "b">>
    /\ Self(2).net.params = savedSnapshot[1].params
    /\ Built(1)
    /\ Self(1).net.params # savedSnapshot[1].params

====
